---------------------------- MODULE Spec2Model ----------------------------
(* A model of the API-wrapper remote provider (boson/provider.py) and of   *)
(* its cookiecutter copy: parameter translation, the queryables registry,  *)
(* the HTTP requester, the result converter and the search orchestrator.   *)
(*                                                                         *)
(* Conventions.  Python's None is the empty tuple and a present value x is *)
(* the one-element tuple <<x>> wherever a value may be None.  A dict is a  *)
(* function whose domain is a set of strings.  Text that the code inspects *)
(* character by character (field names, UTC stamps) is a tuple of          *)
(* one-character strings.  A call's outcome is a record whose exc field is *)
(* "none" or the name of the exception raised.                             *)
EXTENDS Integers, Sequences, FiniteSets, TLC

VARIABLES
    variant,      \* which copy of provider.py runs: "boson" or "cookiecutter"
    openapi_file, \* the file system at "path_to_openapi_file"
    self,         \* the provider object: api_url, max_page_size, api_default_params
    pc,           \* position of the current call
    pagination,   \* search's pagination argument
    kwargs,       \* the keyword arguments of the current call
    page,         \* search's local page
    page_size,    \* search's local page_size
    api_params,   \* request_features' local api_params
    response,     \* the HTTP response (or the raw body handed to the converter)
    features,     \* request_features' result
    result,       \* what the call returned or raised
    steps,        \* the steps the current call has taken, in order
    gets,         \* the HTTP GETs the current call has issued
    calls,        \* number of search calls started
    prev,         \* the pagination state the previous search call returned
    chain,        \* position of the current call in a chain of fed-back paginations
    first         \* history: the first search call that finished, and what it got

vars == <<variant, openapi_file, self, pc, pagination, kwargs, page, page_size,
          api_params, response, features, result, steps, gets, calls, prev, chain,
          first>>

-----------------------------------------------------------------------------
(* Bounds of the model *)

MaxCalls == 3
MaxObs == 2

-----------------------------------------------------------------------------
(* Python values *)

None == <<>>
Some(x) == <<x>>
IsNone(v) == v = <<>>
Val(v) == v[1]

EmptyDict == [k \in {} |-> 0]
Keys(d) == DOMAIN d
Put(d, k, v) == [x \in DOMAIN d \cup {k} |-> IF x = k THEN v ELSE d[x]]
Update(d, e) == [x \in DOMAIN d \cup DOMAIN e |-> IF x \in DOMAIN e THEN e[x] ELSE d[x]]
Get(d, k, default) == IF k \in DOMAIN d THEN d[k] ELSE default
Without(d, ks) == [x \in DOMAIN d \ ks |-> d[x]]

Ok(v) == [exc |-> "none", val |-> v]
Raise(e) == [exc |-> e, val |-> None]

Last(s) == s[Len(s)]

-----------------------------------------------------------------------------
(* The provider object *)

init ==
    [ api_url |-> "api endpoint url goes here",
      max_page_size |-> 200,
      api_default_params |-> [api_key |-> "api key goes here", format |-> "json"] ]

-----------------------------------------------------------------------------
(* The Queryables Registry *)

Property(title, type, enum) == [title |-> title, type |-> type, enum |-> enum]

\* The mapping queryables() returns when no OpenAPI file is present.
example_queryables ==
    [ example_parameter |->
          Property("parameter_title", "string", Some(<<"option1", "option2", "option3">>)),
      example_parameter2 |-> Property("parameter_title2", "integer", None),
      example_parameter3 |-> Property("parameter_title3", "integer", None),
      example_parameter4 |-> Property("parameter_title4", "boolean", None) ]

\* One queryable per parameter of the document's GET /occurrence/search; a
\* later parameter of the same name replaces an earlier one.
queryables_of_parameters(params) ==
    [ n \in {params[i].name : i \in DOMAIN params} |->
        LET i == CHOOSE j \in DOMAIN params :
                     /\ params[j].name = n
                     /\ \A k \in DOMAIN params : params[k].name = n => k <= j
        IN  Property(params[i].name, params[i].type, params[i].enum) ]

\* boson/provider.py never imports json, so its json.load raises NameError
\* once the file has been opened; the cookiecutter copy imports it.  A
\* document without paths/<path>/get/parameters raises KeyError.
get_queryables_from_openapi(v, doc) ==
    IF v = "boson" THEN Raise("NameError")
    ELSE IF ~doc.wellformed THEN Raise("KeyError")
    ELSE Ok(queryables_of_parameters(doc.parameters))

queryables ==
    IF openapi_file.exists
    THEN get_queryables_from_openapi(variant, openapi_file)
    ELSE Ok(example_queryables)

-----------------------------------------------------------------------------
(* Date formatting: _datetime.fromtimestamp(seconds).strftime("%Y-%m-%d"),  *)
(* with the process's local time zone taken to be UTC.                      *)

DigitChars == <<"0", "1", "2", "3", "4", "5", "6", "7", "8", "9">>
Pad2(n) == <<DigitChars[((n \div 10) % 10) + 1], DigitChars[(n % 10) + 1]>>
Pad4(n) == Pad2(n \div 100) \o Pad2(n % 100)

\* The civil date <<year, month, day>> of a day count since 1970-01-01.
civil_from_days(days) ==
    LET z   == days + 719468
        era == z \div 146097
        doe == z - era * 146097
        yoe == (doe - doe \div 1460 + doe \div 36524 - doe \div 146096) \div 365
        doy == doe - (365 * yoe + yoe \div 4 - yoe \div 100)
        mp  == (5 * doy + 2) \div 153
        d   == doy - (153 * mp + 2) \div 5 + 1
        m   == IF mp < 10 THEN mp + 3 ELSE mp - 9
        y   == yoe + era * 400 + (IF m <= 2 THEN 1 ELSE 0)
    IN  <<y, m, d>>

strftime_ymd(ts) ==
    LET c == civil_from_days(ts.seconds \div 86400)
    IN  Pad4(c[1]) \o <<"-">> \o Pad2(c[2]) \o <<"-">> \o Pad2(c[3])

-----------------------------------------------------------------------------
(* The CQL2 converter (boson.conversion.cql2_to_query_params): a filter is  *)
(* a logical_and of eq(property, value) terms, converted to the mapping     *)
(* property -> value; a later term of the same property wins.               *)

cql2_to_query_params(filter) ==
    [ p \in {filter[i].property : i \in DOMAIN filter} |->
        LET i == CHOOSE j \in DOMAIN filter :
                     /\ filter[j].property = p
                     /\ \A k \in DOMAIN filter : filter[k].property = p => k <= j
        IN  filter[i].value ]

-----------------------------------------------------------------------------
(* The Parameter Translator, section by section *)

\* Python truthiness of the arguments.
TruthySeq(s) == s # <<>>
TruthyFilter(f) == ~IsNone(f) /\ Val(f) # <<>>
TruthyFields(f) ==
    \/ f.kind = "list" /\ f.list # <<>>
    \/ f.kind = "dict" /\ Keys(f.dict) # {}
TruthySortby(s) == ~IsNone(s) /\ Keys(Val(s)) # {}

with_defaults(slf) ==
    IF Keys(slf.api_default_params) # {}
    THEN Update(EmptyDict, slf.api_default_params)
    ELSE EmptyDict

with_bbox(p, a) ==
    IF TruthySeq(a.bbox) THEN Put(p, "bbox", a.bbox) ELSE p

\* with_datetime sending empty dates when no range is given.
with_datetime_blank(p, a) ==
    IF TruthySeq(a.datetime)
    THEN Put(Put(p, "startdate", strftime_ymd(a.datetime[1])),
             "enddate", strftime_ymd(a.datetime[2]))
    ELSE Put(Put(p, "startdate", <<>>), "enddate", <<>>)

with_datetime(p, a) ==
    IF TruthySeq(a.datetime)
    THEN Put(Put(p, "startdate", strftime_ymd(a.datetime[1])),
             "enddate", strftime_ymd(a.datetime[2]))
    ELSE p

\* with_intersects giving way to a bbox already set.
with_intersects_unless_bbox(p, a) ==
    IF ~IsNone(a.intersects) /\ "bbox" \notin Keys(p)
    THEN Put(p, "bbox", Val(a.intersects).bounds)
    ELSE p

with_intersects(p, a) ==
    IF ~IsNone(a.intersects) THEN Put(p, "bbox", Val(a.intersects).bounds) ELSE p

with_ids(p, a) ==
    IF TruthySeq(a.feature_ids) THEN Put(p, "ids", a.feature_ids) ELSE p

with_filter(p, a) ==
    IF TruthyFilter(a.filter) THEN Update(p, cql2_to_query_params(Val(a.filter))) ELSE p

IsExcluded(field) == field[1] = "-"
IsIncluded(field) == field[1] = "+"

fields_exclude(f) ==
    IF f.kind = "dict"
    THEN Get(f.dict, "exclude", <<>>)
    ELSE SelectSeq(f.list, IsExcluded)

fields_include(f) ==
    IF f.kind = "dict"
    THEN Get(f.dict, "include", <<>>)
    ELSE SelectSeq(f.list, IsIncluded)

with_fields(p, a) ==
    IF TruthyFields(a.fields) THEN Put(p, "exclude_columns", fields_exclude(a.fields)) ELSE p

\* with_sortby applying its default direction without a sort spec.
with_sortby_defaulted(p, a) ==
    Put(p, "sort", IF TruthySortby(a.sortby) THEN Get(Val(a.sortby), "direction", "asc") ELSE "asc")

with_sortby(p, a) ==
    IF TruthySortby(a.sortby) THEN Put(p, "sort", Get(Val(a.sortby), "direction", "asc")) ELSE p

with_method(p, a, q) ==
    IF "method" \in Keys(q) THEN Put(p, "method", a.method) ELSE p

\* with_pagination testing "page" for both keys.
with_pagination_by_page(p, a, q) ==
    IF "page" \in Keys(q) THEN Put(Put(p, "page", a.page), "page_size", a.page_size) ELSE p

with_pagination(p, a, q) ==
    LET p1 == IF "page" \in Keys(q) THEN Put(p, "page", a.page) ELSE p
    IN  IF "page_size" \in Keys(q) THEN Put(p1, "page_size", a.page_size) ELSE p1

\* The first exception the translator meets, in the order of its statements.
parse_input_params_exc(a) ==
    IF Len(a.datetime) = 1 THEN "IndexError"
    ELSE IF TruthyFields(a.fields) /\ a.fields.kind = "list"
            /\ \E i \in DOMAIN a.fields.list : a.fields.list[i] = <<>>
         THEN "IndexError"
    ELSE queryables.exc

parse_input_params(slf, a) ==
    IF parse_input_params_exc(a) # "none"
    THEN Raise(parse_input_params_exc(a))
    ELSE LET q  == queryables.val
             p0 == with_defaults(slf)
             p1 == with_bbox(p0, a)
             p2 == with_datetime(p1, a)
             p3 == with_intersects(p2, a)
             p4 == with_ids(p3, a)
             p5 == with_filter(p4, a)
             p6 == with_fields(p5, a)
             p7 == with_sortby(p6, a)
             p8 == with_method(p7, a, q)
         IN  Ok(with_pagination(p8, a, q))

-----------------------------------------------------------------------------
(* _datetime.strptime(text, "%Y-%m-%dT%H:%M") on a tuple of characters:     *)
(* four digits of year, then one or two digits each of month, day, hour and *)
(* minute, separated by "-", "-", "T" and ":"; a date that does not exist   *)
(* is a ValueError like any other mismatch.                                 *)

IsDigit(c) == \E i \in DOMAIN DigitChars : DigitChars[i] = c
DigitVal(c) == (CHOOSE i \in DOMAIN DigitChars : DigitChars[i] = c) - 1
AllDigits(s) == \A i \in DOMAIN s : IsDigit(s[i])

RECURSIVE ToInt(_)
ToInt(s) == IF s = <<>> THEN 0 ELSE 10 * ToInt(SubSeq(s, 1, Len(s) - 1)) + DigitVal(Last(s))

\* The first position at or after from where s holds c, or 0.
IndexOf(s, c, from) ==
    IF \E i \in from..Len(s) : s[i] = c
    THEN CHOOSE i \in from..Len(s) : s[i] = c /\ \A j \in from..(i - 1) : s[j] # c
    ELSE 0

IsLeap(y) == (y % 4 = 0 /\ y % 100 # 0) \/ y % 400 = 0
DaysInMonth(y, m) ==
    IF m = 2 THEN (IF IsLeap(y) THEN 29 ELSE 28)
    ELSE IF m \in {4, 6, 9, 11} THEN 30 ELSE 31

strptime(s) ==
    LET i1 == IndexOf(s, "-", 1)
        i2 == IF i1 = 0 THEN 0 ELSE IndexOf(s, "-", i1 + 1)
        iT == IF i2 = 0 THEN 0 ELSE IndexOf(s, "T", i2 + 1)
        iC == IF iT = 0 THEN 0 ELSE IndexOf(s, ":", iT + 1)
        ys == SubSeq(s, 1, i1 - 1)
        ms == SubSeq(s, i1 + 1, i2 - 1)
        ds == SubSeq(s, i2 + 1, iT - 1)
        hs == SubSeq(s, iT + 1, iC - 1)
        ns == SubSeq(s, iC + 1, Len(s))
    IN  IF /\ iC # 0
           /\ Len(ys) = 4 /\ AllDigits(ys)
           /\ \A t \in {ms, ds, hs, ns} : Len(t) \in 1..2 /\ AllDigits(t)
           /\ ToInt(ys) >= 1
           /\ ToInt(ms) \in 1..12
           /\ ToInt(ds) \in 1..DaysInMonth(ToInt(ys), ToInt(ms))
           /\ ToInt(hs) \in 0..23
           /\ ToInt(ns) \in 0..59
        THEN Ok([year |-> ToInt(ys), month |-> ToInt(ms), day |-> ToInt(ds),
                 hour |-> ToInt(hs), minute |-> ToInt(ns)])
        ELSE Raise("ValueError")

-----------------------------------------------------------------------------
(* The Result Converter *)

\* A decoded JSON body: null, a list of observations, or a mapping.
NullBody == [kind |-> "null", list |-> <<>>, dict |-> EmptyDict]
ListBody(l) == [kind |-> "list", list |-> l, dict |-> EmptyDict]
DictBody(d) == [kind |-> "dict", list |-> <<>>, dict |-> d]

\* Python truthiness of a decoded body.
TruthyBody(b) ==
    \/ b.kind = "list" /\ b.list # <<>>
    \/ b.kind = "dict" /\ Keys(b.dict) # {}

\* response.get("results", []) for a mapping, the list itself otherwise.
unwrap_results(b) ==
    IF b.kind = "dict" THEN Get(b.dict, "results", <<>>) ELSE b.list

fixed_keys == {"id", "geometry", "datetime"}

\* The exception one observation raises in the converter's loop, or "none".
observation_exc(observation) ==
    IF "UTC" \notin Keys(observation) THEN "TypeError"
    ELSE strptime(observation["UTC"]).exc

\* feature_of with the coordinates in (lat, lon) order.
feature_of_lat_lon(observation) ==
    [ id |-> IF "id" \in Keys(observation) THEN Some(observation["id"]) ELSE None,
      geometry |-> [type |-> "Point",
                    coordinates |-> <<Get(observation, "Latitude", 0),
                                      Get(observation, "Longitude", 0)>>],
      datetime |-> strptime(observation["UTC"]).val,
      properties |-> Without(observation, fixed_keys) ]

\* The feature the loop body builds from one observation.
feature_of(observation) ==
    LET id  == IF "id" \in Keys(observation) THEN Some(observation["id"]) ELSE None
        lat == Get(observation, "Latitude", 0)
        lon == Get(observation, "Longitude", 0)
    IN  [ id |-> id,
          geometry |-> [type |-> "Point", coordinates |-> <<lon, lat>>],
          datetime |-> strptime(observation["UTC"]).val,
          properties |-> Without(observation, fixed_keys) ]

\* convert_results_to_features leaving out the observations that fail.
Converts(observation) == observation_exc(observation) = "none"
convert_results_to_features_skipping(b) ==
    LET resp == unwrap_results(b)
        good == SelectSeq(resp, Converts)
    IN  IF b.kind = "null" THEN Raise("TypeError")
        ELSE IF resp = <<>> THEN Raise("IndexError")
        ELSE Ok([i \in DOMAIN good |-> feature_of(good[i])])

\* boson/provider.py: len(None) is a TypeError, response[0] of an empty
\* list an IndexError, and the first observation that fails aborts the loop.
convert_results_to_features(b) ==
    LET resp == unwrap_results(b)
        bad  == {i \in DOMAIN resp : observation_exc(resp[i]) # "none"}
    IN  IF b.kind = "null" THEN Raise("TypeError")
        ELSE IF resp = <<>> THEN Raise("IndexError")
        ELSE IF bad # {}
             THEN Raise(observation_exc(resp[CHOOSE i \in bad : \A j \in bad : i <= j]))
        ELSE Ok([i \in DOMAIN resp |-> feature_of(resp[i])])

\* The cookiecutter copy: an empty response is an empty frame; otherwise
\* set_index("id") and the UTC column need their keys, and strptime is
\* called with a keyword argument, which it does not take.
convert_results_to_gdf(b) ==
    LET resp == unwrap_results(b)
    IN  IF b.kind = "null" THEN Raise("TypeError")
        ELSE IF resp = <<>> THEN Ok(<<>>)
        ELSE IF \A i \in DOMAIN resp : "id" \notin Keys(resp[i]) THEN Raise("KeyError")
        ELSE IF \A i \in DOMAIN resp : "UTC" \notin Keys(resp[i]) THEN Raise("KeyError")
        ELSE Raise("TypeError")

converter(v, b) ==
    IF v = "boson" THEN convert_results_to_features(b) ELSE convert_results_to_gdf(b)

-----------------------------------------------------------------------------
(* The HTTP Requester's handling of a response *)

\* Whether request_features hands the decoded body to the converter.  The
\* boson copy returns [] for a falsy body; the cookiecutter copy assigns an
\* empty frame and goes on to convert all the same.
\* converts without the status check.
converts_whatever_status(v, resp) ==
    v = "boson" => TruthyBody(resp.body)

converts(v, resp) ==
    /\ resp.status_code = 200
    /\ (v = "boson" => TruthyBody(resp.body))

-----------------------------------------------------------------------------
(* The Search Orchestrator's resolution of page and page_size *)

resolve_limit(kw) ==
    IF ~IsNone(kw.limit) /\ Val(kw.limit) = 0 THEN None ELSE kw.limit

\* resolve_page falling back to page 1 when the mapping has no page.
resolve_page_defaulted(pag) == Some(Get(pag, "page", 1))

resolve_page(pag) ==
    IF Keys(pag) # {}
    THEN (IF "page" \in Keys(pag) THEN Some(pag["page"]) ELSE None)
    ELSE Some(1)

\* resolve_page_size with the limit taking precedence over the pagination.
resolve_page_size_limit_first(slf, pag, kw) ==
    LET limit == resolve_limit(kw)
    IN  IF ~IsNone(limit)
        THEN (IF Val(limit) <= slf.max_page_size THEN Val(limit) ELSE slf.max_page_size)
        ELSE Get(pag, "page_size", slf.max_page_size)

resolve_page_size(slf, pag, kw) ==
    LET limit == resolve_limit(kw)
        sized == IF IsNone(limit) THEN slf.max_page_size
                 ELSE IF Val(limit) <= slf.max_page_size THEN Val(limit)
                 ELSE slf.max_page_size
    IN  IF Keys(pag) # {} THEN Get(pag, "page_size", slf.max_page_size) ELSE sized

\* next_pagination without the increment.
next_pagination_same_page(pg, size) == [page |-> Val(pg), page_size |-> size]

\* The pagination state search returns.
next_pagination(pg, size) == [page |-> Val(pg) + 1, page_size |-> size]

-----------------------------------------------------------------------------
(* The inputs the model draws from *)

Variants == {"boson", "cookiecutter"}

Param(name, type) == [name |-> name, type |-> type, enum |-> None]
NoFile == [exists |-> FALSE, wellformed |-> FALSE, parameters |-> <<>>]
Document(params) == [exists |-> TRUE, wellformed |-> TRUE, parameters |-> params]
Malformed == [exists |-> TRUE, wellformed |-> FALSE, parameters |-> <<>>]

OpenApiFiles ==
    { NoFile,
      Malformed,
      Document(<<Param("q", "string"), Param("page", "integer")>>),
      Document(<<Param("method", "string"), Param("page", "integer"),
                 Param("page_size", "integer")>>) }

Timestamp(sec) == [seconds |-> sec]
T1 == Timestamp(1672531200)     \* 2023-01-01T00:00Z
T2 == Timestamp(1686832200)     \* 2023-06-15T12:30Z

Box == <<1, 2, 3, 4>>
Geometry == [bounds |-> <<5, 6, 7, 8>>]

Eq(property, value) == [property |-> property, value |-> value]
Filters ==
    { None,
      Some(<<>>),
      Some(<<Eq("q", "x")>>),
      Some(<<Eq("page", Some(7)), Eq("q", "x")>>),
      Some(<<Eq("bbox", <<9, 9, 9, 9>>)>>),
      Some(<<Eq("startdate", <<"2", "0", "2", "0", "-", "0", "1", "-", "0", "1">>)>>) }

NoFields == [kind |-> "none", list |-> <<>>, dict |-> EmptyDict]
FieldList(l) == [kind |-> "list", list |-> l, dict |-> EmptyDict]
FieldDict(d) == [kind |-> "dict", list |-> <<>>, dict |-> d]
FieldSpecs ==
    { NoFields,
      FieldList(<<>>),
      FieldList(<< <<"+", "a">>, <<"-", "b">>, <<"-", "c">> >>),
      FieldList(<< <<"+", "a">> >>),
      FieldDict([include |-> << <<"a">> >>, exclude |-> << <<"b">> >>]),
      FieldDict([exclude |-> << <<"b">>, <<"c">> >>]),
      FieldDict([include |-> << <<"a">> >>]) }

Sortbys ==
    { None,
      Some([field |-> "time", direction |-> "desc"]),
      Some([field |-> "time"]) }

Limits == {None, Some(0), Some(1), Some(50), Some(200), Some(201)}

Paginations ==
    { EmptyDict,
      [page |-> 3, page_size |-> 10],
      [page |-> 2],
      [page_size |-> 10] }

\* The keyword arguments of a direct call of parse_input_params.
ParseKwargs ==
    [ bbox : {<<>>, Box},
      datetime : {<<>>, <<T1>>, <<T1, T2>>},
      intersects : {None, Some(Geometry)},
      collections : {<<>>, <<"c1">>},
      feature_ids : {<<>>, <<"f1", "f2">>},
      filter : Filters,
      fields : FieldSpecs,
      sortby : Sortbys,
      method : {"POST"},
      page : {None, Some(2)},
      page_size : {None},
      limit : {None} ]

\* The keyword arguments of a search call; page and page_size are search's
\* own, set when it calls request_features.
SearchKwargs ==
    [ bbox : {<<>>},
      datetime : {<<>>, <<T1>>},
      intersects : {None},
      collections : {<<>>},
      feature_ids : {<<>>},
      filter : {None},
      fields : {NoFields},
      sortby : {None},
      method : {"POST"},
      page : {None},
      page_size : {None},
      limit : Limits ]

UTC1 == <<"2", "0", "2", "3", "-", "0", "1", "-", "0", "1", "T", "0", "0", ":", "0", "0">>
UTC2 == <<"2", "0", "2", "3", "-", "6", "-", "1", "5", "T", "1", "2", ":", "3", "0">>
UTCBad == <<"2", "0", "2", "3", "-", "0", "1", "-", "0", "1", " ", "0", "0", ":", "0", "0">>

Obs1 == [id |-> "x1", Latitude |-> 1, Longitude |-> 2, UTC |-> UTC1, extra |-> 5]
Obs2 == [Latitude |-> 3, UTC |-> UTC2, datetime |-> "raw", geometry |-> "raw"]
Obs3 == [id |-> "x3", Latitude |-> 1, Longitude |-> 2, UTC |-> UTCBad]
Obs4 == [id |-> "x4", Latitude |-> 4, Longitude |-> 5]
Observations == {Obs1, Obs2, Obs3, Obs4}

ObsLists == UNION {[1..n -> Observations] : n \in 0..MaxObs}

Bodies ==
    {NullBody, DictBody(EmptyDict), DictBody([count |-> 0])}
        \cup {ListBody(l) : l \in ObsLists}
        \cup {DictBody([results |-> l]) : l \in ObsLists}

Response(status, body) == [status_code |-> status, body |-> body]

\* Bodies whose first observation converts and whose second does not.
MixedBodies == {ListBody(<<Obs1, Obs3>>), DictBody([results |-> <<Obs1, Obs4>>])}

\* The responses a search call may receive: under status 200 the bodies of
\* at most one observation and the mixed ones, and two failure statuses.
Responses ==
    {Response(200, b) : b \in {x \in Bodies : Len(unwrap_results(x)) <= 1}}
        \cup {Response(200, b) : b \in MixedBodies}
        \cup {Response(st, NullBody) : st \in {404, 500}}

NoResult == [kind |-> "none", exc |-> "none", value |-> <<>>, next |-> EmptyDict]
Returned(v, n) == [kind |-> "returned", exc |-> "none", value |-> v, next |-> n]
Raised(e) == [kind |-> "raised", exc |-> e, value |-> <<>>, next |-> EmptyDict]
\* The outcome of a call that returns a value or raises.
Outcome(r) == IF r.exc = "none" THEN Returned(r.val, EmptyDict) ELSE Raised(r.exc)

NoChain == [L |-> 0, k |-> 0]

-----------------------------------------------------------------------------
(* search, step by step *)

Idle(position) ==
    /\ variant \in Variants
    /\ openapi_file \in OpenApiFiles
    /\ self = init
    /\ pc = position
    /\ pagination = EmptyDict
    /\ page = None
    /\ page_size = self.max_page_size
    /\ api_params = None
    /\ features = <<>>
    /\ result = NoResult
    /\ steps = <<>>
    /\ gets = <<>>
    /\ calls = 0
    /\ prev = None
    /\ chain = NoChain
    /\ first = None

Init ==
    /\ Idle("idle")
    /\ kwargs \in {k \in SearchKwargs : k.datetime = <<>> /\ k.limit = None}
    /\ response = None

\* Entry of search up to the call of request_features.
Enter(pag, kw, ch) ==
    /\ calls < MaxCalls
    /\ pagination' = pag
    /\ kwargs' = [kw EXCEPT !.page = resolve_page(pag),
                            !.page_size = Some(resolve_page_size(self, pag, kw))]
    /\ page' = resolve_page(pag)
    /\ page_size' = resolve_page_size(self, pag, kw)
    /\ pc' = "translate"
    /\ api_params' = None
    /\ response' = None
    /\ features' = <<>>
    /\ result' = NoResult
    /\ steps' = <<>>
    /\ gets' = <<>>
    /\ calls' = calls + 1
    /\ chain' = ch
    /\ UNCHANGED <<variant, openapi_file, self, prev>>

\* A search call with arguments of the caller's choosing.
SearchCall ==
    /\ pc \in {"idle", "returned", "raised"}
    /\ \E pag \in Paginations, kw \in SearchKwargs :
          Enter(pag, kw,
                IF pag = EmptyDict /\ ~IsNone(kw.limit)
                   /\ Val(kw.limit) \in 1..self.max_page_size
                THEN [L |-> Val(kw.limit), k |-> 1]
                ELSE NoChain)
    /\ UNCHANGED first

\* A search call fed the pagination state the previous call returned.
SearchNext ==
    /\ pc = "returned"
    /\ \E kw \in SearchKwargs :
          Enter(Val(prev), kw,
                IF chain.k > 0 THEN [chain EXCEPT !.k = chain.k + 1] ELSE NoChain)
    /\ UNCHANGED first

\* Translate with api_params an alias of self.api_default_params.
TranslateAliased ==
    /\ pc = "translate"
    /\ LET r == parse_input_params(self, kwargs)
       IN  IF r.exc = "none"
           THEN /\ api_params' = Some(r.val)
                /\ self' = [self EXCEPT !.api_default_params = r.val]
                /\ pc' = "get"
                /\ result' = result
           ELSE /\ api_params' = None
                /\ self' = self
                /\ pc' = "raised"
                /\ result' = Raised(r.exc)
    /\ steps' = Append(steps, "translate")
    /\ UNCHANGED <<variant, openapi_file, pagination, kwargs, page, page_size,
                   response, features, gets, calls, prev, chain, first>>

Translate ==
    /\ pc = "translate"
    /\ LET r == parse_input_params(self, kwargs)
       IN  IF r.exc = "none"
           THEN /\ api_params' = Some(r.val)
                /\ pc' = "get"
                /\ result' = result
           ELSE /\ api_params' = None
                /\ pc' = "raised"
                /\ result' = Raised(r.exc)
    /\ steps' = Append(steps, "translate")
    /\ UNCHANGED <<variant, openapi_file, self, pagination, kwargs, page, page_size,
                   response, features, gets, calls, prev, chain, first>>

HttpGet ==
    /\ pc = "get"
    /\ \E resp \in Responses : response' = Some(resp)
    /\ gets' = Append(gets, [url |-> self.api_url, params |-> Val(api_params)])
    /\ steps' = Append(steps, "GET")
    /\ pc' = "decode"
    /\ UNCHANGED <<variant, openapi_file, self, pagination, kwargs, page, page_size,
                   api_params, features, result, calls, prev, chain, first>>

\* Decode issuing the GET again after a status other than 200.
DecodeRetry ==
    /\ pc = "decode"
    /\ IF Val(response).status_code # 200
       THEN pc' = "get"
       ELSE IF converts(variant, Val(response)) THEN pc' = "convert" ELSE pc' = "return"
    /\ features' = <<>>
    /\ UNCHANGED <<variant, openapi_file, self, pagination, kwargs, page, page_size,
                   api_params, response, result, steps, gets, calls, prev, chain, first>>

\* The status check and the empty-body check of request_features.
Decode ==
    /\ pc = "decode"
    /\ IF converts(variant, Val(response))
       THEN pc' = "convert"
       ELSE pc' = "return"
    /\ features' = <<>>
    /\ UNCHANGED <<variant, openapi_file, self, pagination, kwargs, page, page_size,
                   api_params, response, result, steps, gets, calls, prev, chain, first>>

Convert ==
    /\ pc = "convert"
    /\ LET r == converter(variant, Val(response).body)
       IN  IF r.exc = "none"
           THEN /\ features' = r.val
                /\ pc' = "return"
                /\ result' = result
           ELSE /\ features' = <<>>
                /\ pc' = "raised"
                /\ result' = Raised(r.exc)
    /\ steps' = Append(steps, "convert")
    /\ UNCHANGED <<variant, openapi_file, self, pagination, kwargs, page, page_size,
                   api_params, response, gets, calls, prev, chain, first>>

\* search's return statement: page + 1 is a TypeError when page is None.
Return ==
    /\ pc = "return"
    /\ IF IsNone(page)
       THEN /\ result' = Raised("TypeError")
            /\ pc' = "raised"
            /\ prev' = prev
       ELSE /\ result' = Returned(features, next_pagination(page, page_size))
            /\ pc' = "returned"
            /\ prev' = Some(next_pagination(page, page_size))
    /\ steps' = Append(steps, "return")
    /\ UNCHANGED <<variant, openapi_file, self, pagination, kwargs, page, page_size,
                   api_params, response, features, gets, calls, chain, first>>

Next == SearchCall \/ SearchNext \/ Translate \/ HttpGet \/ Decode \/ Convert \/ Return

Spec == Init /\ [][Next]_vars

-----------------------------------------------------------------------------
(* parse_input_params called on its own *)

InitTranslate ==
    /\ Idle("call")
    /\ kwargs \in ParseKwargs
    /\ response = None

ParseCall ==
    /\ pc = "call"
    /\ result' = Outcome(parse_input_params(self, kwargs))
    /\ steps' = Append(steps, "translate")
    /\ pc' = "done"
    /\ UNCHANGED <<variant, openapi_file, self, pagination, kwargs, page, page_size,
                   api_params, response, features, gets, calls, prev, chain, first>>

SpecTranslate == InitTranslate /\ [][ParseCall]_vars

-----------------------------------------------------------------------------
(* convert_results_to_features called on its own *)

InitConvert ==
    /\ Idle("call")
    /\ kwargs \in {k \in SearchKwargs : k.datetime = <<>> /\ k.limit = None}
    /\ response \in {Some(Response(200, b)) : b \in Bodies}

ConvertCall ==
    /\ pc = "call"
    /\ result' = Outcome(converter(variant, Val(response).body))
    /\ steps' = Append(steps, "convert")
    /\ pc' = "done"
    /\ UNCHANGED <<variant, openapi_file, self, pagination, kwargs, page, page_size,
                   api_params, response, features, gets, calls, prev, chain, first>>

SpecConvert == InitConvert /\ [][ConvertCall]_vars

-----------------------------------------------------------------------------
(* Properties of search *)

Finished == pc \in {"returned", "raised"}
Status == Val(response).status_code
Body == Val(response).body
Min(a, b) == IF a <= b THEN a ELSE b

\* C1: a search call whose arguments translated and whose page is an
\* integer, and whose GET came back with a status other than 200, never
\* reaches the converter and never raises; it returns an empty record
\* collection together with the pagination state {page + 1, page_size}.
C1_NonOkIsEmptyPage ==
    (gets # <<>> /\ Status # 200 /\ ~IsNone(page)) =>
        /\ pc \in {"decode", "return", "returned"}
        /\ pc = "returned" =>
              result = Returned(<<>>, [page |-> Val(page) + 1, page_size |-> page_size])

C1_Witness ==
    /\ pc = "returned"
    /\ Status = 404
    /\ result.value = <<>>
    /\ result.next = [page |-> 4, page_size |-> 10]

\* C2: in a chain of calls that starts with limit = L (1 <= L <=
\* max_page_size) and empty pagination, and in which every later call is
\* fed the pagination state the call before it returned, the k-th call
\* passes page k and page_size L to request_features, whatever its other
\* arguments.
C2_ChainRequestsPageK ==
    chain.k > 0 =>
        /\ chain.L \in 1..self.max_page_size
        /\ page = Some(chain.k) /\ page_size = chain.L
        /\ kwargs.page = Some(chain.k) /\ kwargs.page_size = Some(chain.L)
        /\ gets # <<>> =>
              \A n \in {"page", "page_size"} :
                  n \in Keys(gets[1].params) =>
                      gets[1].params[n] = Some(IF n = "page" THEN chain.k ELSE chain.L)

C2_Witness ==
    /\ chain = [L |-> 50, k |-> 3]
    /\ pc = "returned"
    /\ "page" \in Keys(gets[1].params)
    /\ ~IsNone(kwargs.limit) /\ Val(kwargs.limit) = 1

\* C3: the (page, page_size) search passes to request_features is the
\* pagination mapping's page and page_size when a (non-empty) mapping is
\* given, whatever the limit; otherwise (1, min(limit, max_page_size)) for a
\* nonzero limit; otherwise (1, max_page_size), limit = 0 counting as none.
C3_ResolvedPage ==
    pc # "idle" =>
        /\ kwargs.page = page /\ kwargs.page_size = Some(page_size)
        /\ Keys(pagination) # {} =>
              /\ "page" \in Keys(pagination) => page = Some(pagination["page"])
              /\ "page_size" \in Keys(pagination) => page_size = pagination["page_size"]
        /\ (Keys(pagination) = {} /\ kwargs.limit \notin {None, Some(0)}) =>
              /\ page = Some(1)
              /\ page_size = Min(Val(kwargs.limit), self.max_page_size)
        /\ (Keys(pagination) = {} /\ kwargs.limit \in {None, Some(0)}) =>
              /\ page = Some(1)
              /\ page_size = self.max_page_size

C3_Witness ==
    /\ pc = "get"
    /\ pagination = [page |-> 3, page_size |-> 10]
    /\ kwargs.limit = Some(50)
    /\ page = Some(3) /\ page_size = 10

-----------------------------------------------------------------------------
(* Properties of parse_input_params *)

Translated == pc = "done" /\ result.kind = "returned"
PagingNames == {"method", "page", "page_size"}

\* No search constraint is supplied: every one is empty or absent.
AllEmpty(a) ==
    /\ a.bbox = <<>> /\ a.datetime = <<>> /\ IsNone(a.intersects)
    /\ a.collections = <<>> /\ a.feature_ids = <<>>
    /\ ~TruthyFilter(a.filter) /\ ~TruthyFields(a.fields) /\ ~TruthySortby(a.sortby)

\* Whether the filter has a term on property n, and the value of its last one.
FilterNames(a) ==
    IF TruthyFilter(a.filter)
    THEN {Val(a.filter)[i].property : i \in DOMAIN Val(a.filter)}
    ELSE {}
FilterValue(a, n) ==
    LET f == Val(a.filter)
        i == CHOOSE j \in DOMAIN f :
                 f[j].property = n /\ \A k \in DOMAIN f : f[k].property = n => k <= j
    IN  f[i].value

\* C4 as stated: with every constraint empty or absent the returned mapping
\* is the Default Parameter Set exactly.
C4_DefaultsExactly ==
    (Translated /\ AllEmpty(kwargs)) => result.value = self.api_default_params

\* C4 as amended: with every constraint empty or absent the returned mapping
\* is the Default Parameter Set plus, for each of method, page and page_size
\* that the Queryables Registry advertises, that key with the call's value.
C4_DefaultsPlusAdvertised ==
    (Translated /\ AllEmpty(kwargs)) =>
        /\ Keys(result.value) =
               Keys(self.api_default_params) \cup (PagingNames \cap Keys(queryables.val))
        /\ \A n \in Keys(self.api_default_params) :
               result.value[n] = self.api_default_params[n]
        /\ \A n \in PagingNames \cap Keys(queryables.val) : result.value[n] = kwargs[n]
        /\ ~openapi_file.exists => result.value = self.api_default_params

C4_Witness ==
    /\ Translated /\ AllEmpty(kwargs)
    /\ kwargs.filter = Some(<<>>) /\ kwargs.fields = FieldList(<<>>)
    /\ Keys(result.value) = {"api_key", "format", "page"}
    /\ result.value["page"] = Some(2)

\* C5 as stated: given a non-empty bbox and an intersects geometry, the
\* bbox of the output is the geometry's bounds, whatever the other arguments.
C5_BoundsAlways ==
    (Translated /\ kwargs.bbox # <<>> /\ ~IsNone(kwargs.intersects)) =>
        result.value["bbox"] = Val(kwargs.intersects).bounds

\* C5 as amended: given a non-empty bbox and an intersects geometry, the
\* bbox of the output is the geometry's bounds, whatever the other
\* arguments, unless the filter itself has a term on bbox, whose value is
\* merged later and is the output's bbox.
C5_BoundsUnlessFiltered ==
    (Translated /\ kwargs.bbox # <<>> /\ ~IsNone(kwargs.intersects)) =>
        result.value["bbox"] =
            IF "bbox" \in FilterNames(kwargs)
            THEN FilterValue(kwargs, "bbox")
            ELSE Val(kwargs.intersects).bounds

C5_Witness ==
    /\ Translated
    /\ kwargs.bbox = Box /\ kwargs.intersects = Some(Geometry)
    /\ "q" \in FilterNames(kwargs) /\ kwargs.datetime # <<>>
    /\ result.value["bbox"] = <<5, 6, 7, 8>>

\* The names a fields argument excludes: the exclude list of the mapping
\* form, the "-" entries without their prefix in the list form.
ExcludedNames(f) ==
    IF f.kind = "dict"
    THEN Get(f.dict, "exclude", <<>>)
    ELSE LET ex == SelectSeq(f.list, IsExcluded)
         IN  [i \in DOMAIN ex |-> Tail(ex[i])]

\* C6: exclude_columns holds the excluded names, the same for a list of
\* prefixed names as for the mapping whose exclude list holds those names
\* without the prefix: ["+a", "-b", "-c"] gives ["b", "c"].
C6_ExcludeFormsAgree ==
    (Translated /\ TruthyFields(kwargs.fields)) =>
        result.value["exclude_columns"] = ExcludedNames(kwargs.fields)

\* C7 as stated: each of method, page, page_size is a key of the output
\* if and only if it is a key of the Queryables Registry.
C7_IffAdvertised ==
    Translated =>
        \A n \in PagingNames : n \in Keys(result.value) <=> n \in Keys(queryables.val)

\* C7 as amended: each of method, page, page_size is a key of the output
\* if and only if it is a key of the Queryables Registry or the filter has
\* a term on it.
C7_IffAdvertisedOrFiltered ==
    Translated =>
        \A n \in PagingNames :
            n \in Keys(result.value) <=>
                (n \in Keys(queryables.val) \/ n \in FilterNames(kwargs))

C7_Witness ==
    /\ Translated
    /\ FilterNames(kwargs) = {}
    /\ kwargs.bbox # <<>> /\ TruthyFields(kwargs.fields)
    /\ PagingNames \cap Keys(result.value) = {"page"}
    /\ Keys(queryables.val) = {"q", "page"}

-----------------------------------------------------------------------------
(* Properties of the converter and of the requester *)

Range(f) == {f[i] : i \in DOMAIN f}

\* The time a well-formed UTC text of the model denotes.
Stamp(y, mo, d, h, mi) == [year |-> y, month |-> mo, day |-> d, hour |-> h, minute |-> mi]
Denotes(text) == IF text = UTC1 THEN Stamp(2023, 1, 1, 0, 0) ELSE Stamp(2023, 6, 15, 12, 30)

\* C8: when convert_results_to_features returns, each observation has its
\* record, in order: the identifier is the observation's id, the point
\* geometry is [Longitude, Latitude], the timestamp is the parsed UTC field,
\* and the properties hold every observation key other than id, geometry
\* and datetime with its value, and none of those three.
C8_RecordOfObservation ==
    (pc = "done" /\ variant = "boson" /\ result.kind = "returned") =>
        LET obs == unwrap_results(Body)
        IN  /\ Len(result.value) = Len(obs)
            /\ \A i \in DOMAIN obs :
                  LET o == obs[i]
                      r == result.value[i]
                  IN  /\ r.id = (IF "id" \in Keys(o) THEN Some(o["id"]) ELSE None)
                      /\ r.geometry.type = "Point"
                      /\ r.geometry.coordinates =
                             <<Get(o, "Longitude", 0), Get(o, "Latitude", 0)>>
                      /\ r.datetime = Denotes(o["UTC"])
                      /\ Keys(r.properties) = Keys(o) \ {"id", "geometry", "datetime"}
                      /\ \A k \in Keys(r.properties) : r.properties[k] = o[k]

C8_Witness ==
    /\ pc = "done" /\ variant = "boson" /\ result.kind = "returned"
    /\ Body = DictBody([results |-> <<Obs1, Obs2>>])
    /\ result.value[1].geometry.coordinates = <<2, 1>>
    /\ result.value[1].properties["extra"] = 5
    /\ Keys(result.value[2].properties) = {"Latitude", "UTC"}

\* C9: after a GET that returned status 200 with an empty or falsy body,
\* request_features does not invoke the converter and does not raise: it
\* yields an empty result set (search may still fail afterwards on
\* page + 1, which is not request_features' doing).
C9_EmptyBodySkipsConverter ==
    (gets # <<>> /\ Status = 200 /\ ~TruthyBody(Body)) =>
        /\ pc \in {"decode", "return", "returned", "raised"}
        /\ "convert" \notin Range(steps)
        /\ features = <<>>
        /\ pc = "raised" => (IsNone(page) /\ Last(steps) = "return")

\* C10: a search call issues at most one GET, and exactly one once its
\* arguments have translated; its steps are translate, GET, convert, return
\* in that order, convert being skipped or not; the converter runs only
\* after a 200 response; and no GET follows a non-200 response or a failed
\* conversion.
C10_OneGetInOrder ==
    LET full  == <<"translate", "GET", "convert", "return">>
        short == <<"translate", "GET", "return">>
    IN  /\ Len(gets) <= 1
        /\ \E n \in 0..4 : steps = SubSeq(full, 1, n) \/ steps = SubSeq(short, 1, n)
        /\ Len(gets) = Cardinality({i \in DOMAIN steps : steps[i] = "GET"})
        /\ "convert" \in Range(steps) => Status = 200
        /\ (Finished /\ ~IsNone(api_params)) => Len(gets) = 1
        /\ (Finished /\ IsNone(api_params)) => (gets = <<>> /\ steps = <<"translate">>)
        /\ pc = "returned" => Last(steps) = "return"

C10_Witness ==
    /\ pc = "returned"
    /\ steps = <<"translate", "GET", "convert", "return">>
    /\ Len(gets) = 1
    /\ Len(result.value) = 1

-----------------------------------------------------------------------------
(* Properties of search's return statement *)

LacksPage(pag) == Keys(pag) # {} /\ "page" \notin Keys(pag)

-----------------------------------------------------------------------------
(* Properties of a failing conversion *)

\* An observation whose UTC field is missing or not of the expected format.
BadStamp(o) == "UTC" \notin Keys(o) \/ o["UTC"] \notin {UTC1, UTC2}
HasBadStamp(b) == \E i \in DOMAIN unwrap_results(b) : BadStamp(unwrap_results(b)[i])

\* C12: when one observation of a 200 response has a missing or malformed
\* UTC field the converter raises, and search returns nothing: no records,
\* not even those of the observations before the bad one, and no
\* pagination state.
C12_AllOrNothing ==
    (gets # <<>> /\ Status = 200 /\ HasBadStamp(Body)) =>
        /\ pc \in {"decode", "convert", "raised"}
        /\ features = <<>>
        /\ result.kind # "returned"
        /\ pc = "raised" =>
              /\ Last(steps) = "convert"
              /\ result.value = <<>> /\ result.next = EmptyDict
              /\ variant = "boson" => result.exc \in {"ValueError", "TypeError"}

C12_Witness ==
    /\ pc = "raised"
    /\ variant = "boson"
    /\ gets # <<>>
    /\ Body = ListBody(<<Obs1, Obs3>>)
    /\ result = Raised("ValueError")
    /\ ~IsNone(page)

\* C13: for a raw result (a list, or a mapping whose results key holds the
\* list) of well-formed observations, convert_results_to_features returns
\* one record per observation, in order; a mapping whose results list is
\* empty or absent and an empty list give the empty sequence, without error.
C13_RecordPerObservation ==
    (pc = "done" /\ variant = "boson" /\ Body.kind # "null" /\ ~HasBadStamp(Body)) =>
        LET obs == unwrap_results(Body)
        IN  /\ result.kind = "returned"
            /\ Len(result.value) = Len(obs)
            /\ \A i \in DOMAIN obs :
                  /\ result.value[i].id =
                         (IF "id" \in Keys(obs[i]) THEN Some(obs[i]["id"]) ELSE None)
                  /\ result.value[i].datetime = Denotes(obs[i]["UTC"])

-----------------------------------------------------------------------------
(* search and parse_input_params as the two ways into the translator *)

InitEntryPoints == Init \/ InitTranslate

NextEntryPoints == Next \/ ParseCall

SpecEntryPoints == InitEntryPoints /\ [][NextEntryPoints]_vars

DateNames == {"startdate", "enddate"}
\* The current call is a search call that has got past its translation.
PastTranslation == pc \in {"get", "decode", "convert", "return", "returned", "raised"}

\* C14 as stated: with a one-element datetime parse_input_params raises an
\* index error and a search call fails before any GET; with an empty
\* datetime the output has neither startdate nor enddate.
C14_NoDatesWithoutRange ==
    /\ (pc = "done" /\ Len(kwargs.datetime) = 1) => result = Raised("IndexError")
    /\ (PastTranslation /\ Len(kwargs.datetime) = 1) =>
          /\ pc = "raised" /\ result = Raised("IndexError")
          /\ gets = <<>> /\ steps = <<"translate">>
    /\ (Translated /\ kwargs.datetime = <<>>) => Keys(result.value) \cap DateNames = {}
    /\ (PastTranslation /\ ~IsNone(api_params) /\ kwargs.datetime = <<>>) =>
          Keys(Val(api_params)) \cap DateNames = {}

\* C14 as amended: with a one-element datetime parse_input_params raises an
\* index error and a search call fails before any GET; with an empty
\* datetime the output has a startdate or an enddate key only if the filter
\* has a term on it.
C14_NoDatesButFiltered ==
    /\ (pc = "done" /\ Len(kwargs.datetime) = 1) => result = Raised("IndexError")
    /\ (PastTranslation /\ Len(kwargs.datetime) = 1) =>
          /\ pc = "raised" /\ result = Raised("IndexError")
          /\ gets = <<>> /\ steps = <<"translate">>
    /\ (Translated /\ kwargs.datetime = <<>>) =>
          Keys(result.value) \cap DateNames = FilterNames(kwargs) \cap DateNames
    /\ (PastTranslation /\ ~IsNone(api_params) /\ kwargs.datetime = <<>>) =>
          Keys(Val(api_params)) \cap DateNames = FilterNames(kwargs) \cap DateNames

C14_Witness ==
    /\ pc = "raised"
    /\ kwargs.datetime = <<T1>>
    /\ result = Raised("IndexError")
    /\ steps = <<"translate">> /\ gets = <<>>
    /\ calls = 2

-----------------------------------------------------------------------------
(* Sequences of search, parse_input_params and queryables calls on one       *)
(* provider object                                                           *)

CallPaginations == {EmptyDict, [page_size |-> 10]}
CallKwargs == {k \in SearchKwargs : k.limit = None}
DirectKwargs ==
    {[k EXCEPT !.datetime = d, !.filter = f] :
        k \in {x \in SearchKwargs : x.limit = None /\ x.datetime = <<>>},
        d \in {<<>>, <<T1>>},
        f \in {None, Some(<<Eq("q", 7)>>)}}

\* No call is running.
Between == pc \in {"idle", "returned", "raised", "done"}

\* What the search call that has just finished was given and gave back.
Finding(between) ==
    [pagination |-> pagination, kwargs |-> kwargs, response |-> response,
     result |-> result, between |-> between]

\* The history kept when a call starts; direct says that the call is not a search.
Remember(direct) ==
    first' = IF ~IsNone(first)
             THEN Some([Val(first) EXCEPT !.between = @ \/ direct])
             ELSE IF pc \in {"returned", "raised"}
                  THEN Some(Finding(direct))
                  ELSE None

InitCalls == Init

SearchAgain ==
    /\ Between
    /\ \E pag \in CallPaginations, kw \in CallKwargs : Enter(pag, kw, NoChain)
    /\ Remember(FALSE)

ParseDirect ==
    /\ Between
    /\ calls < MaxCalls
    /\ \E kw \in DirectKwargs :
          /\ kwargs' = kw
          /\ result' = Outcome(parse_input_params(self, kw))
    /\ steps' = <<"translate">>
    /\ pc' = "done"
    /\ calls' = calls + 1
    /\ Remember(TRUE)
    /\ UNCHANGED <<variant, openapi_file, self, pagination, page, page_size,
                   api_params, response, features, gets, prev, chain>>

QueryablesCall ==
    /\ Between
    /\ calls < MaxCalls
    /\ result' = Outcome(queryables)
    /\ steps' = <<"queryables">>
    /\ pc' = "done"
    /\ calls' = calls + 1
    /\ Remember(TRUE)
    /\ UNCHANGED <<variant, openapi_file, self, pagination, kwargs, page, page_size,
                   api_params, response, features, gets, prev, chain>>

NextCalls ==
    \/ SearchAgain \/ ParseDirect \/ QueryablesCall
    \/ Translate \/ HttpGet \/ Decode \/ Convert \/ Return

SpecCalls == InitCalls /\ [][NextCalls]_vars

\* The finished search call was given what the first one was given.
SameAsFirst ==
    /\ Finished /\ ~IsNone(first)
    /\ Val(first).pagination = pagination
    /\ Val(first).kwargs = kwargs
    /\ Val(first).response = response

\* C15: whatever calls were made, the provider's configuration is the one it
\* was constructed with, and a search call given the arguments and the HTTP
\* response of an earlier one returns or raises what the earlier one did.
C15_ConfigurationFixed ==
    /\ self = init
    /\ SameAsFirst => result = Val(first).result

C15_Witness ==
    /\ SameAsFirst
    /\ Val(first).between
    /\ result.kind = "returned"
    /\ result.value # <<>>
    /\ result = Val(first).result
    /\ self = init

=============================================================================
